---- MODULE Spec2Model ----
(***************************************************************************)
(* FootBot (src/main.py): weekly attendance polls in chat groups.          *)
(*                                                                         *)
(* The bot is one asyncio event loop.  Every handler runs without          *)
(* interruption between two awaits of a gateway call (bot.send_message,    *)
(* bot.edit_message_text, bot.edit_message_reply_markup), so one action of *)
(* this module is one such run-to-the-next-await segment of a handler, and *)
(* a handler suspended in a gateway call is a record in the bag `tasks`.   *)
(* The clock is an input: a registered job may fire at any step, in a       *)
(* minute its cron trigger is due in.                                      *)
(***************************************************************************)
EXTENDS Integers, Sequences, FiniteSets, Bags, TLC

\* ------------------------------------------------------------------ bounds

\* Stored schedule entries, summed over the chats.
MaxSched == 2
\* Polls ever created (uuid4 values handed out).
MaxPolls == 2
\* Handlers suspended in a gateway call at the same time.
MaxTasks == 2
\* Display names stored in one poll, summed over its three options.
MaxNames == 3
\* Entries of the longest list a schedule file holds at startup.
MaxList == 3

\* ------------------------------------------------------------ input domains

Chats == {"c1", "c2"}
Voters == {1, 2, 3}
Names == {"Ann", "Bob"}

Training ==
    [poll_name |-> "Training",
     start_day |-> 1, start_time |-> [hour |-> 12, minute |-> 0],
     end_day |-> 2, end_time |-> [hour |-> 18, minute |-> 0]]

Match ==
    [poll_name |-> "Match",
     start_day |-> 4, start_time |-> [hour |-> 20, minute |-> 30],
     end_day |-> 5, end_time |-> [hour |-> 9, minute |-> 15]]

SettingsSet == {Training, Match}

Cup ==
    [poll_name |-> "Cup",
     start_day |-> 6, start_time |-> [hour |-> 10, minute |-> 0],
     end_day |-> 6, end_time |-> [hour |-> 16, minute |-> 45]]


\* The two minutes of the week a schedule names: day_of_week as the wizard's
\* buttons and CronTrigger count it (0 is Monday), hour, minute.
Instants(s) ==
    {<<s.start_day, s.start_time.hour, s.start_time.minute>>,
     <<s.end_day, s.end_time.hour, s.end_time.minute>>}

\* The minutes of the week the scheduler's clock is sampled at: those the
\* schedules name, the minute after each and the same minute a day earlier.
Clock ==
    UNION {{t, <<t[1], t[2], (t[3] + 1) % 60>>, <<(t[1] + 6) % 7, t[2], t[3]>>} :
           t \in UNION {Instants(s) : s \in SettingsSet}}

\* The options in the order the handlers scan them.
Options == {"yes", "no", "maybe"}

\* ---------------------------------------------------------------- variables

VARIABLES
    phase,          \* "boot" before on_startup has run, "run" after
    file,           \* poll_data.json: [status, data]
    poll_settings,  \* chat_id -> list of settings (a dict: only present keys)
    jobs,           \* the jobs registered with the scheduler
    active_polls,   \* the open polls, in dict insertion order
    next_id,        \* the next fresh poll id
    tasks,          \* bag of handlers suspended in a gateway call
    messages,       \* the poll messages in the chats, by message_id
    out             \* what the last step printed: its reply or log line

vars == <<phase, file, poll_settings, jobs, active_polls, next_id, tasks, messages, out>>

\* ------------------------------------------------------------ list helpers

Range(s) == {s[i] : i \in 1..Len(s)}

\* Index of the first occurrence of x in s, 0 when absent.
IndexOf(s, x) ==
    IF x \in Range(s) THEN CHOOSE i \in 1..Len(s) : s[i] = x /\ \A j \in 1..(i - 1) : s[j] # x
    ELSE 0

RemoveAt(s, i) == SubSeq(s, 1, i - 1) \o SubSeq(s, i + 1, Len(s))

\* list.remove(x) for an x that is in the list: the first occurrence goes.
ListRemove(s, x) == RemoveAt(s, IndexOf(s, x))

\* A dict without key k.
DictDel(d, k) == [c \in DOMAIN d \ {k} |-> d[c]]

\* A dict with d[k] = v, k new or not.
DictSet(d, k, v) == [c \in DOMAIN d \cup {k} |-> IF c = k THEN v ELSE d[c]]

EmptyDict == [c \in {} |-> <<>>]

RECURSIVE SumLen(_, _)
SumLen(d, keys) ==
    IF keys = {} THEN 0
    ELSE LET k == CHOOSE c \in keys : TRUE IN Len(d[k]) + SumLen(d, keys \ {k})

\* ------------------------------------------------------------- persistence

\* load_data: the dict read from the file without its empty lists; a missing
\* or unreadable file gives the empty dict.
load_data(f) ==
    IF f.status = "ok"
    THEN [c \in {k \in DOMAIN f.data : f.data[k] # <<>>} |-> f.data[c]]
    ELSE EmptyDict

\* save_data: the file after a write of settings that succeeds.
save_data(settings) == [status |-> "ok", data |-> settings]

\* The file after a write that raises: open() failed and the file is as it
\* was, or the write broke off after open() truncated it.
FailedWrites(f) == {f, [status |-> "corrupt", data |-> EmptyDict]}

\* --------------------------------------------------------------- scheduler

\* A start job whose day_of_week counts the days from Sunday.
StartJobFromSunday(chat, i, s) ==
    [id |-> <<"poll_start", chat, i>>, func |-> "create_poll",
     day_of_week |-> (s.start_day + 1) % 7, hour |-> s.start_time.hour,
     minute |-> s.start_time.minute,
     chat_id |-> chat, settings |-> <<s>>, settings_index |-> <<>>, entry_pos |-> i + 1]

\* The settings argument of a start job is the dict object stored in the
\* list, and create_poll stores that same object in the poll.  entry_pos
\* follows the object: its position in poll_settings[chat_id] counted from
\* 1, and 0 once it has left the list.
StartJob(chat, i, s) ==
    [id |-> <<"poll_start", chat, i>>, func |-> "create_poll",
     day_of_week |-> s.start_day, hour |-> s.start_time.hour, minute |-> s.start_time.minute,
     chat_id |-> chat, settings |-> <<s>>, settings_index |-> <<>>, entry_pos |-> i + 1]

EndJob(chat, i, s) ==
    [id |-> <<"poll_end", chat, i>>, func |-> "close_poll_by_settings",
     day_of_week |-> s.end_day, hour |-> s.end_time.hour, minute |-> s.end_time.minute,
     chat_id |-> chat, settings |-> <<>>, settings_index |-> <<i>>, entry_pos |-> 0]

\* CronTrigger(day_of_week, hour, minute): the trigger is due in the minute
\* whose weekday, hour and minute are the three fields, at second 0.
CronMatches(j, now) == now = <<j.day_of_week, j.hour, j.minute>>

\* setup_scheduler: remove_all_jobs, then one start job and one end job per
\* entry, the entry's index counted from 0 as enumerate does.
setup_scheduler(settings) ==
    UNION {UNION {{StartJob(c, i - 1, settings[c][i]), EndJob(c, i - 1, settings[c][i])} :
                  i \in 1..Len(settings[c])} :
           c \in DOMAIN settings}

\* -------------------------------------------------------------------- polls

EmptyTally == [o \in Options |-> <<>>]

\* An entry that takes the tally of the poll opened before it, as one tally
\* object shared by the entries would have it.
NewPollShared(id, chat, s, pos) ==
    LET prev == IF active_polls = <<>>
                THEN [user_votes |-> EmptyTally, user_names |-> EmptyTally]
                ELSE active_polls[Len(active_polls)]
    IN  [id |-> id, chat_id |-> chat, message_id |-> id,
         user_votes |-> prev.user_votes, user_names |-> prev.user_names,
         settings |-> s, entry_pos |-> pos]

\* The entry create_poll stores once the poll message is sent.
NewPoll(id, chat, s, pos) ==
    [id |-> id, chat_id |-> chat, message_id |-> id,
     user_votes |-> EmptyTally, user_names |-> EmptyTally, settings |-> s, entry_pos |-> pos]

PollIds == {active_polls[k].id : k \in 1..Len(active_polls)}

\* Position of poll id in active_polls, 0 when it is not open.
PollIndex(id) ==
    IF id \in PollIds THEN CHOOSE k \in 1..Len(active_polls) : active_polls[k].id = id ELSE 0

\* del active_polls[id]
DelPoll(polls, id) == SelectSeq(polls, LAMBDA p : p.id # id)

\* format_poll_message: the three counts the poll message shows.
format_poll_message(votes) == <<Len(votes["yes"]), Len(votes["no"]), Len(votes["maybe"])>>

\* format_final_results: the three name lists the summary shows.
format_final_results(names) == <<names["yes"], names["no"], names["maybe"]>>

\* The removal loop cut short after its first option.
RemoveVotesYesOnly(votes, user_id) ==
    [o \in Options |->
        IF o = "yes" /\ user_id \in Range(votes[o]) THEN ListRemove(votes[o], user_id)
        ELSE votes[o]]

\* The removal loop of handle_vote_callback (the same in both branches): in
\* every option that holds user_id, the id goes, and the first entry equal
\* to user_name goes when there is one.
RemoveVotes(votes, user_id) ==
    [o \in Options |->
        IF user_id \in Range(votes[o]) THEN ListRemove(votes[o], user_id) ELSE votes[o]]

RemoveNames(votes, names, user_id, user_name) ==
    [o \in Options |->
        IF user_id \in Range(votes[o]) /\ user_name \in Range(names[o])
        THEN ListRemove(names[o], user_name)
        ELSE names[o]]

\* vote_removed / previous_vote: whether the loop removed anything.
HasVote(poll, user_id) == \E o \in Options : user_id \in Range(poll.user_votes[o])

\* The reset branch applied to one poll.
reset_vote(poll, user_id, user_name) ==
    [poll EXCEPT
        !.user_votes = RemoveVotes(poll.user_votes, user_id),
        !.user_names = RemoveNames(poll.user_votes, poll.user_names, user_id, user_name)]

\* The vote branch without its removal loop: the append alone.
cast_vote_keep(poll, user_id, user_name, action) ==
    [poll EXCEPT
        !.user_votes[action] = Append(@, user_id),
        !.user_names[action] = Append(@, user_name)]

\* The vote branch applied to one poll: the removal loop, then the append.
cast_vote(poll, user_id, user_name, action) ==
    LET cleared == reset_vote(poll, user_id, user_name)
    IN  [cleared EXCEPT
            !.user_votes[action] = Append(@, user_id),
            !.user_names[action] = Append(@, user_name)]

NameCount(poll) ==
    Len(poll.user_names["yes"]) + Len(poll.user_names["no"]) + Len(poll.user_names["maybe"])

\* ----------------------------------------------------------------- messages

\* A poll message as the chat shows it: whether it carries the inline
\* keyboard, and whether the last edit update_poll_message sent for it
\* failed, so that it shows counts older than that edit's.
SentMessage == [reply_markup |-> TRUE, edit_failed |-> FALSE]

\* bot.edit_message_text(..., reply_markup=keyboard) of update_poll_message.
Rendered(msgs, id, ok) ==
    IF ok THEN [msgs EXCEPT ![id] = SentMessage]
    ELSE [msgs EXCEPT ![id].edit_failed = TRUE]

\* bot.edit_message_reply_markup(reply_markup=None) and the
\* bot.edit_message_text without reply_markup of close_poll: either one,
\* when it succeeds, leaves the message without keyboard.
Stripped(msgs, id, ok) ==
    IF ok THEN [msgs EXCEPT ![id].reply_markup = FALSE] ELSE msgs

\* -------------------------------------------------------------------- tasks

Task(kind, pc, job, chat, id, s, text, pos) ==
    [kind |-> kind, pc |-> pc, job |-> job, chat_id |-> chat, poll_id |-> id,
     settings |-> s, text |-> text, entry_pos |-> pos]

TaskSet == BagToSet(tasks)
TaskCount == BagCardinality(tasks)
Spawn(t) == tasks (+) SetToBag({t})
Finish(t) == tasks (-) SetToBag({t})

\* The scheduler runs one instance of a job at a time (max_instances = 1).
JobBusy(id) == \E t \in TaskSet : t.job = id

\* The job field of a handler that no scheduler job started.
NoJob == <<"", "", 0>>

CreatesInFlight == BagCardinality([t \in {u \in TaskSet : u.kind = "create_poll"} |-> tasks[t]])

\* --------------------------------------------------------------------- init

BootFiles ==
    {[status |-> "missing", data |-> EmptyDict],
     [status |-> "corrupt", data |-> EmptyDict],
     [status |-> "ok", data |-> EmptyDict],
     [status |-> "ok", data |-> ("c1" :> <<Training>>)],
     [status |-> "ok", data |-> ("c1" :> <<Training>>) @@ ("c2" :> <<>>)]}

Init ==
    /\ phase = "boot"
    /\ file \in BootFiles
    /\ poll_settings = EmptyDict
    /\ jobs = {}
    /\ active_polls = <<>>
    /\ next_id = 1
    /\ tasks = EmptyBag
    /\ messages = <<>>
    /\ out = "none"

pollVars == <<active_polls, next_id, tasks, messages>>
storeVars == <<file, poll_settings, jobs>>

\* on_startup over a load_data without its except Exception clause: the
\* decode error of an unreadable file leaves main() before the bot runs.
on_startup_uncaught ==
    /\ phase = "boot"
    /\ IF file.status = "corrupt"
       THEN /\ out' = "unhandled_error"
            /\ UNCHANGED <<phase, poll_settings, jobs>>
       ELSE /\ phase' = "run"
            /\ poll_settings' = load_data(file)
            /\ jobs' = setup_scheduler(poll_settings')
            /\ out' = "started"
    /\ UNCHANGED <<file, pollVars>>

\* on_startup: load_data, then setup_scheduler.
on_startup ==
    /\ phase = "boot"
    /\ phase' = "run"
    /\ poll_settings' = load_data(file)
    /\ jobs' = setup_scheduler(poll_settings')
    /\ out' = "started"
    /\ UNCHANGED <<file, pollVars>>

\* ----------------------------------------------------------- schedule store

\* Where the entry at position pos is after the pop of position k: gone (0),
\* one place down, or where it was.  k = 0 is no pop.
Shift(pos, k) == IF k = 0 THEN pos ELSE IF pos = k THEN 0 ELSE IF pos > k THEN pos - 1 ELSE pos

\* Everything of chat loses its list.
All == -1

\* A job, handler or poll holding an entry of chat, after position k of that
\* chat's list was popped (k = All: after the list was deleted).
Moved(x, chat, k) ==
    IF x.chat_id # chat THEN x
    ELSE [x EXCEPT !.entry_pos = IF k = All THEN 0 ELSE Shift(@, k)]

MovedPolls(chat, k) == [i \in 1..Len(active_polls) |-> Moved(active_polls[i], chat, k)]

MovedTasks(chat, k) ==
    LET moved == {Moved(t, chat, k) : t \in TaskSet}
    IN  [m \in moved |-> BagCardinality([t \in {u \in TaskSet : Moved(u, chat, k) = m} |-> tasks[t]])]

\* What follows a mutation of poll_settings: save_data(), then
\* setup_scheduler().  A write that raises leaves the handler before
\* setup_scheduler runs; no handler catches it.
SaveAndSetup(ok, done, chat, k) ==
    IF ok
    THEN /\ file' = save_data(poll_settings')
         /\ jobs' = setup_scheduler(poll_settings')
         /\ out' = done
    ELSE /\ file' \in FailedWrites(file)
         /\ jobs' = {Moved(j, chat, k) : j \in jobs}
         /\ out' = "unhandled_error"

\* process_end_time, the last step of the /set_poll wizard.
process_end_time(chat, s, ok) ==
    /\ phase = "run"
    /\ LET cur == IF chat \in DOMAIN poll_settings THEN poll_settings[chat] ELSE <<>>
       IN  poll_settings' = DictSet(poll_settings, chat, Append(cur, s))
    /\ SaveAndSetup(ok, "poll_added", chat, 0)
    /\ UNCHANGED <<phase, pollVars>>

\* The pop without its - 1: poll_settings[chat].pop(k).
PopSettingsFromZero(settings, chat, k) ==
    LET rest == RemoveAt(settings[chat], k + 1)
    IN  IF rest = <<>> THEN DictDel(settings, chat) ELSE DictSet(settings, chat, rest)

\* The pop without the del of an emptied key.
PopSettingsKeepKey(settings, chat, k) == DictSet(settings, chat, RemoveAt(settings[chat], k))

\* The list and dict after poll_settings[chat].pop(k - 1) and the del of an
\* emptied key.
PopSettings(settings, chat, k) ==
    LET rest == RemoveAt(settings[chat], k)
    IN  IF rest = <<>> THEN DictDel(settings, chat) ELSE DictSet(settings, chat, rest)

\* A range check that lets 0 through: 0 <= poll_number <= len(...).
InRangeFromZero(k, n) == 0 <= k /\ k <= n

\* 1 <= poll_number <= len(poll_settings[chat_id])
InRange(k, n) == 1 <= k /\ k <= n

\* /delete_poll <k>
handle_delete_poll(chat, k, ok) ==
    /\ phase = "run"
    /\ IF chat \notin DOMAIN poll_settings \/ poll_settings[chat] = <<>>
       THEN /\ out' = "no_polls"
            /\ UNCHANGED <<storeVars, active_polls, tasks>>
       ELSE IF InRange(k, Len(poll_settings[chat]))
       THEN /\ poll_settings' = PopSettings(poll_settings, chat, k)
            /\ SaveAndSetup(ok, "poll_deleted", chat, k)
            /\ active_polls' = MovedPolls(chat, k)
            /\ tasks' = MovedTasks(chat, k)
       ELSE /\ out' = "bad_number"
            /\ UNCHANGED <<storeVars, active_polls, tasks>>
    /\ UNCHANGED <<phase, next_id, messages>>

\* /delete_all_polls
handle_delete_all_polls(chat, ok) ==
    /\ phase = "run"
    /\ IF chat \in DOMAIN poll_settings /\ poll_settings[chat] # <<>>
       THEN /\ poll_settings' = DictDel(poll_settings, chat)
            /\ SaveAndSetup(ok, "all_deleted", chat, All)
            /\ active_polls' = MovedPolls(chat, All)
            /\ tasks' = MovedTasks(chat, All)
       ELSE /\ out' = "no_polls"
            /\ UNCHANGED <<storeVars, active_polls, tasks>>
    /\ UNCHANGED <<phase, next_id, messages>>

\* ------------------------------------------------------------ poll lifecycle

\* create_poll up to its await of bot.send_message.
create_poll(job, chat, s, pos) ==
    /\ tasks' = Spawn(Task("create_poll", "send_message", job, chat, 0, <<s>>, <<0, 0, 0>>, pos))
    /\ UNCHANGED <<active_polls, next_id, messages>>

\* A start job fires when the clock reads a minute its trigger is due in: the
\* scheduler calls create_poll(chat_id, settings) with the arguments bound
\* when the job was registered.
FireStart(j, now) ==
    /\ phase = "run"
    /\ j \in jobs
    /\ j.func = "create_poll"
    /\ CronMatches(j, now)
    /\ ~JobBusy(j.id)
    /\ create_poll(j.id, j.chat_id, j.settings[1], j.entry_pos)
    /\ out' = "start_fired"
    /\ UNCHANGED <<phase, storeVars>>

\* /manual_poll
handle_manual_poll(chat) ==
    /\ phase = "run"
    /\ IF chat \in DOMAIN poll_settings /\ poll_settings[chat] # <<>>
       THEN IF Len(poll_settings[chat]) > 1
            THEN /\ out' = "use_number"
                 /\ UNCHANGED pollVars
            ELSE /\ create_poll(NoJob, chat, poll_settings[chat][1], 1)
                 /\ out' = "manual_started"
       ELSE /\ out' = "manual_ignored"
            /\ UNCHANGED pollVars
    /\ UNCHANGED <<phase, storeVars>>

\* create_poll storing its entry whether or not the message was sent.
CreateResultAlways(t, ok) == Append(active_polls, NewPoll(next_id, t.chat_id, t.settings[1], t.entry_pos))

\* active_polls after bot.send_message of create_poll returned (ok) or raised.
CreateResult(t, ok) ==
    IF ok THEN Append(active_polls, NewPoll(next_id, t.chat_id, t.settings[1], t.entry_pos))
    ELSE active_polls

\* create_poll from the return of bot.send_message to its end.
CreateDone(t, ok) ==
    /\ t \in TaskSet
    /\ t.kind = "create_poll"
    /\ active_polls' = CreateResult(t, ok)
    /\ next_id' = IF ok THEN next_id + 1 ELSE next_id
    /\ messages' = IF ok THEN Append(messages, SentMessage) ELSE messages
    /\ out' = IF ok THEN "poll_created" ELSE "create_error"
    /\ tasks' = Finish(t)
    /\ UNCHANGED <<phase, storeVars>>

\* The loop of close_poll_by_settings taking the first poll of the chat,
\* whatever its settings.
FirstMatchByChat(chat, i, k) ==
    IF \E n \in k..Len(active_polls) : active_polls[n].chat_id = chat
    THEN CHOOSE n \in k..Len(active_polls) :
            /\ active_polls[n].chat_id = chat
            /\ \A m \in k..(n - 1) : active_polls[m].chat_id # chat
    ELSE 0

\* The loop of close_poll_by_settings over list(active_polls.items()): the
\* index of the first poll of the chat whose settings equal the entry at
\* settings_index, 0 when the loop ends without one, -1 when the lookup
\* poll_settings[chat_id][settings_index] raises.
RECURSIVE FirstMatch(_, _, _)
FirstMatch(chat, i, k) ==
    IF k > Len(active_polls) THEN 0
    ELSE IF active_polls[k].chat_id # chat THEN FirstMatch(chat, i, k + 1)
    ELSE IF chat \notin DOMAIN poll_settings \/ i + 1 > Len(poll_settings[chat]) THEN -1
    ELSE IF active_polls[k].settings = poll_settings[chat][i + 1] THEN k
    ELSE FirstMatch(chat, i, k + 1)

\* close_poll up to its await of bot.send_message with the summary.
close_poll(job, poll) ==
    /\ tasks' = Spawn(Task("close_poll", "send_message", job, poll.chat_id, poll.id,
                           <<>>, format_final_results(poll.user_names), poll.entry_pos))
    /\ UNCHANGED <<active_polls, next_id, messages>>

\* An end job fires when the clock reads a minute its trigger is due in:
\* close_poll_by_settings(chat_id, settings_index).
FireEnd(j, now) ==
    /\ phase = "run"
    /\ j \in jobs
    /\ j.func = "close_poll_by_settings"
    /\ CronMatches(j, now)
    /\ ~JobBusy(j.id)
    /\ LET k == FirstMatch(j.chat_id, j.settings_index[1], 1)
       IN  IF k > 0
           THEN /\ close_poll(j.id, active_polls[k])
                /\ out' = "close_started"
           ELSE /\ out' = IF k = 0 THEN "no_match" ELSE "lookup_error"
                /\ UNCHANGED pollVars
    /\ UNCHANGED <<phase, storeVars>>

\* active_polls after the del at the end of close_poll; del of a poll that
\* another close already removed raises KeyError, which is logged.
CloseDelete(t) == DelPoll(active_polls, t.poll_id)

\* active_polls after the summary's bot.send_message raised: the except of
\* close_poll logs, and the del is not reached.
CloseSummaryFailed(t) == active_polls

\* close_poll from the return of the summary's bot.send_message.
CloseSummaryDone(t, ok) ==
    /\ t \in TaskSet
    /\ t.kind = "close_poll"
    /\ t.pc = "send_message"
    /\ IF ok
       THEN /\ tasks' = Spawn([t EXCEPT !.pc = "edit_message_reply_markup"]) (-) SetToBag({t})
            /\ active_polls' = active_polls
            /\ out' = "summary_sent"
       ELSE /\ tasks' = Finish(t)
            /\ active_polls' = CloseSummaryFailed(t)
            /\ out' = "summary_error"
    /\ UNCHANGED <<phase, storeVars, next_id, messages>>

\* close_poll from the return of bot.edit_message_reply_markup: on success
\* it goes on to bot.edit_message_text, on failure straight to the del.
CloseStripDone(t, ok) ==
    /\ t \in TaskSet
    /\ t.kind = "close_poll"
    /\ t.pc = "edit_message_reply_markup"
    /\ IF ok
       THEN /\ tasks' = Spawn([t EXCEPT !.pc = "edit_message_text"]) (-) SetToBag({t})
            /\ active_polls' = active_polls
            /\ out' = "controls_stripped"
       ELSE /\ tasks' = Finish(t)
            /\ active_polls' = CloseDelete(t)
            /\ out' = IF t.poll_id \in PollIds THEN "poll_closed" ELSE "close_error"
    /\ messages' = Stripped(messages, t.poll_id, ok)
    /\ UNCHANGED <<phase, storeVars, next_id>>

\* close_poll from the return of bot.edit_message_text to its end.
CloseFinalDone(t, ok) ==
    /\ t \in TaskSet
    /\ t.kind = "close_poll"
    /\ t.pc = "edit_message_text"
    /\ tasks' = Finish(t)
    /\ active_polls' = CloseDelete(t)
    /\ out' = IF t.poll_id \in PollIds THEN "poll_closed" ELSE "close_error"
    /\ messages' = Stripped(messages, t.poll_id, ok)
    /\ UNCHANGED <<phase, storeVars, next_id>>

\* ------------------------------------------------------------------- voting

\* update_poll_message up to its await of bot.edit_message_text: nothing is
\* sent for a poll that is not open.
update_poll_message(polls, id) ==
    IF \E k \in 1..Len(polls) : polls[k].id = id
    THEN LET poll == polls[CHOOSE k \in 1..Len(polls) : polls[k].id = id]
         IN  Spawn(Task("update_poll_message", "edit_message_text", NoJob,
                        poll.chat_id, id, <<>>, format_poll_message(poll.user_votes),
                        poll.entry_pos))
    ELSE tasks

\* handle_vote_callback without its check of poll_id: the vote of an unknown
\* poll makes an entry for it.
VoteUnknownCreates(id, user_id, action) ==
    /\ phase = "run"
    /\ id \in 1..(next_id - 1)
    /\ id \notin PollIds
    /\ out' = "poll_finished"
    /\ active_polls' = Append(active_polls,
                              cast_vote(NewPoll(id, "c1", Training, 1), user_id, "Ann", action))
    /\ UNCHANGED <<phase, storeVars, next_id, tasks, messages>>

\* handle_vote_callback for a poll id that is not in active_polls.
VoteUnknown(id, user_id, action) ==
    /\ phase = "run"
    /\ id \in 1..(next_id - 1)
    /\ id \notin PollIds
    /\ out' = "poll_finished"
    /\ UNCHANGED <<phase, storeVars, pollVars>>

\* handle_vote_callback, action yes / no / maybe, for an open poll.
Vote(id, user_id, user_name, action) ==
    /\ phase = "run"
    /\ id \in PollIds
    /\ LET k == PollIndex(id)
           voted == cast_vote(active_polls[k], user_id, user_name, action)
       IN  /\ active_polls' = [active_polls EXCEPT ![k] = voted]
           /\ tasks' = update_poll_message(active_polls', id)
    /\ out' = "vote_cast"
    /\ UNCHANGED <<phase, storeVars, next_id, messages>>

\* handle_vote_callback, action reset, for an open poll.
Reset(id, user_id, user_name) ==
    /\ phase = "run"
    /\ id \in PollIds
    /\ LET k == PollIndex(id)
       IN  IF HasVote(active_polls[k], user_id)
           THEN /\ active_polls' =
                       [active_polls EXCEPT ![k] = reset_vote(active_polls[k], user_id, user_name)]
                /\ tasks' = update_poll_message(active_polls', id)
                /\ out' = "vote_reset"
           ELSE /\ out' = "no_active_vote"
                /\ UNCHANGED <<active_polls, tasks>>
    /\ UNCHANGED <<phase, storeVars, next_id, messages>>

\* A failed edit undoing the votes of the poll it was to show.
RenderRollback(t, ok) ==
    IF ok THEN active_polls
    ELSE [k \in 1..Len(active_polls) |->
            IF active_polls[k].id = t.poll_id
            THEN [active_polls[k] EXCEPT !.user_votes = EmptyTally, !.user_names = EmptyTally]
            ELSE active_polls[k]]

\* active_polls after bot.edit_message_text of update_poll_message returned
\* (ok) or raised: the error is logged and nothing is undone.
RenderResult(t, ok) == active_polls

\* update_poll_message from the return of bot.edit_message_text, and the
\* callback.answer that ends handle_vote_callback.
RenderDone(t, ok) ==
    /\ t \in TaskSet
    /\ t.kind = "update_poll_message"
    /\ tasks' = Finish(t)
    /\ active_polls' = RenderResult(t, ok)
    /\ out' = IF ok THEN "vote_answered" ELSE "render_error"
    /\ messages' = Rendered(messages, t.poll_id, ok)
    /\ UNCHANGED <<phase, storeVars, next_id>>

\* ------------------------------------------------------------ specification

Bool == {TRUE, FALSE}

\* Room left under the bounds of the model.
SchedRoom == SumLen(poll_settings, DOMAIN poll_settings) < MaxSched
TaskRoom == TaskCount < MaxTasks
PollRoom == (next_id - 1) + CreatesInFlight < MaxPolls
NameRoom(id, u, n, a) ==
    id \in PollIds => NameCount(cast_vote(active_polls[PollIndex(id)], u, n, a)) <= MaxNames

StoreNext(chats, settings, writes) ==
    \/ \E c \in chats, s \in settings, ok \in writes : SchedRoom /\ process_end_time(c, s, ok)
    \/ \E c \in chats, k \in 0..(MaxSched + 1), ok \in writes : handle_delete_poll(c, k, ok)
    \/ \E c \in chats, ok \in writes : handle_delete_all_polls(c, ok)

ManualNext(chats) == \E c \in chats : TaskRoom /\ PollRoom /\ handle_manual_poll(c)

StartNext ==
    \/ \E j \in jobs, now \in Clock : TaskRoom /\ PollRoom /\ FireStart(j, now)
    \/ \E t \in TaskSet, ok \in Bool : CreateDone(t, ok)

CloseNext ==
    \/ \E j \in jobs, now \in Clock : TaskRoom /\ FireEnd(j, now)
    \/ \E t \in TaskSet, ok \in Bool : CloseSummaryDone(t, ok)
    \/ \E t \in TaskSet, ok \in Bool : CloseStripDone(t, ok)
    \/ \E t \in TaskSet, ok \in Bool : CloseFinalDone(t, ok)

VoteNext(voters, names, edits) ==
    \/ \E id \in 1..MaxPolls, u \in voters, n \in names, a \in Options :
          TaskRoom /\ NameRoom(id, u, n, a) /\ Vote(id, u, n, a)
    \/ \E id \in 1..MaxPolls, u \in voters, n \in names : TaskRoom /\ Reset(id, u, n)
    \/ \E t \in TaskSet, ok \in edits : RenderDone(t, ok)

\* The whole bot.
Next ==
    \/ on_startup
    \/ StoreNext(Chats, SettingsSet, Bool)
    \/ ManualNext(Chats)
    \/ StartNext
    \/ CloseNext
    \/ \E id \in 1..MaxPolls, u \in Voters, a \in Options : VoteUnknown(id, u, a)
    \/ VoteNext(Voters, Names, Bool)

Spec == Init /\ [][Next]_vars

\* The schedule store and the scheduler's job set, persistence failures
\* included; no job fires.
NextStore == on_startup \/ StoreNext(Chats, SettingsSet, Bool)

SpecStore == Init /\ [][NextStore]_vars

\* The poll lifecycle over a changing schedule list whose writes succeed; no
\* votes.
NextLife ==
    \/ on_startup
    \/ StoreNext(Chats, SettingsSet, {TRUE})
    \/ ManualNext(Chats)
    \/ StartNext
    \/ CloseNext

SpecLife == Init /\ [][NextLife]_vars

\* One chat with one stored schedule.
OneSchedule == [status |-> "ok", data |-> ("c1" :> <<Training>>)]

InitOne == Init /\ file = OneSchedule

\* Votes of two voters racing with the opening and closing of the polls of a
\* fixed schedule; every edit of a poll message succeeds.
NextVote ==
    \/ on_startup
    \/ StartNext
    \/ CloseNext
    \/ \E id \in 1..MaxPolls, u \in {1, 2}, a \in Options : VoteUnknown(id, u, a)
    \/ VoteNext({1, 2}, {"Ann"}, {TRUE})

SpecVote == InitOne /\ [][NextVote]_vars

\* The polls of one schedule one after the other: the start job fires when
\* no poll is open; votes, edits and the close overlap.
NextSwitch ==
    \/ on_startup
    \/ \E j \in jobs, now \in Clock :
          TaskRoom /\ PollRoom /\ active_polls = <<>> /\ CreatesInFlight = 0 /\ FireStart(j, now)
    \/ \E t \in TaskSet, ok \in Bool : CreateDone(t, ok)
    \/ CloseNext
    \/ VoteNext({1, 2}, {"Ann"}, Bool)

SpecSwitch == InitOne /\ [][NextSwitch]_vars

\* One chat whose schedule list changes while its polls open and close and
\* every write of the list fails (a disk that has become read-only): the
\* jobs stay those registered at startup.
NextDrift ==
    \/ on_startup
    \/ StoreNext({"c1"}, SettingsSet, {FALSE})
    \/ StartNext
    \/ CloseNext

SpecDrift == InitOne /\ [][NextDrift]_vars

\* The jobs of a changing schedule list firing one at a time; every write of
\* the list succeeds.
NextClock ==
    \/ on_startup
    \/ StoreNext(Chats, SettingsSet, {TRUE})
    \/ \E j \in jobs, now \in Clock : tasks = EmptyBag /\ PollRoom /\ FireStart(j, now)
    \/ \E t \in TaskSet, ok \in Bool : CreateDone(t, ok)
    \/ \E j \in jobs, now \in Clock : tasks = EmptyBag /\ FireEnd(j, now)
    \/ \E t \in TaskSet : CloseSummaryDone(t, TRUE)
    \/ \E t \in TaskSet : CloseStripDone(t, TRUE)
    \/ \E t \in TaskSet : CloseFinalDone(t, TRUE)

SpecClock == Init /\ [][NextClock]_vars

\* The schedule files an earlier run can have left: up to MaxList entries
\* for the first chat, one or none for the second.
ListFiles ==
    {[status |-> "ok", data |-> ("c1" :> l) @@ d] :
        l \in UNION {[1..n -> {Training, Match, Cup}] : n \in 1..MaxList},
        d \in {EmptyDict, "c2" :> <<Match>>}}

\* Deleting from the lists found at startup, the writes failing or not.
NextDelete ==
    \/ on_startup
    \/ \E c \in Chats, k \in 0..(MaxList + 1), ok \in Bool : handle_delete_poll(c, k, ok)
    \/ \E c \in Chats, ok \in Bool : handle_delete_all_polls(c, ok)

SpecDelete ==
    /\ phase = "boot"
    /\ file \in ListFiles
    /\ poll_settings = EmptyDict
    /\ jobs = {}
    /\ active_polls = <<>>
    /\ next_id = 1
    /\ tasks = EmptyBag
    /\ messages = <<>>
    /\ out = "none"
    /\ [][NextDelete]_vars

\* The schedule files of one chat with one or two entries; the wizard
\* appends what it is given, so the two can be equal.
PairFiles ==
    {[status |-> "ok", data |-> ("c1" :> l)] :
        l \in UNION {[1..n -> SettingsSet] : n \in 1..MaxSched}}

\* Polls opened and closed by the jobs, and entries deleted between the runs
\* of the handlers: a poll whose entry has left the list was open when it
\* left.  The writes succeed and no schedule is added after startup.
NextRemoved ==
    \/ on_startup
    \/ \E k \in 0..(MaxSched + 1) : tasks = EmptyBag /\ handle_delete_poll("c1", k, TRUE)
    \/ tasks = EmptyBag /\ handle_delete_all_polls("c1", TRUE)
    \/ StartNext
    \/ CloseNext

SpecRemoved ==
    /\ phase = "boot"
    /\ file \in PairFiles
    /\ poll_settings = EmptyDict
    /\ jobs = {}
    /\ active_polls = <<>>
    /\ next_id = 1
    /\ tasks = EmptyBag
    /\ messages = <<>>
    /\ out = "none"
    /\ [][NextRemoved]_vars

\* One chat whose list holds the same schedule twice.
TwinSchedules == [status |-> "ok", data |-> ("c1" :> <<Training, Training>>)]

\* The four jobs of two equal entries: the start jobs are due in the same
\* minute and so are the end jobs, and the scheduler runs them as separate
\* coroutines of the one loop.  The list does not change.
NextTwins ==
    \/ on_startup
    \/ StartNext
    \/ CloseNext

SpecTwins ==
    /\ phase = "boot"
    /\ file = TwinSchedules
    /\ poll_settings = EmptyDict
    /\ jobs = {}
    /\ active_polls = <<>>
    /\ next_id = 1
    /\ tasks = EmptyBag
    /\ messages = <<>>
    /\ out = "none"
    /\ [][NextTwins]_vars

\* Manual starts only, over a changing schedule list: no start job fires.
NextManual ==
    \/ on_startup
    \/ StoreNext(Chats, {Training}, {TRUE})
    \/ ManualNext(Chats)
    \/ \E t \in TaskSet, ok \in Bool : CreateDone(t, ok)
    \/ CloseNext

SpecManual == Init /\ [][NextManual]_vars

\* One open poll and three voters whose display names may coincide and
\* change between two interactions; one handler at a time.
NextTally ==
    \/ on_startup
    \/ \E j \in jobs, now \in Clock : next_id = 1 /\ tasks = EmptyBag /\ FireStart(j, now)
    \/ \E t \in TaskSet : CreateDone(t, TRUE)
    \/ \E id \in 1..MaxPolls, u \in Voters, n \in Names, a \in Options :
          tasks = EmptyBag /\ NameRoom(id, u, n, a) /\ Vote(id, u, n, a)
    \/ \E id \in 1..MaxPolls, u \in Voters, n \in Names : tasks = EmptyBag /\ Reset(id, u, n)
    \/ \E t \in TaskSet, ok \in Bool : RenderDone(t, ok)

SpecTally == InitOne /\ [][NextTally]_vars

\* ------------------------------------------------------------------- claims

PollOf(polls, id) == polls[CHOOSE k \in 1..Len(polls) : polls[k].id = id]
IdsOf(polls) == {polls[k].id : k \in 1..Len(polls)}

\* How often user_id is stored in the three lists of votes.
Occurrences(votes, user_id) ==
    Cardinality({<<o, i>> \in Options \X (1..Cardinality(Voters) + 1) :
                    i <= Len(votes[o]) /\ votes[o][i] = user_id})

RenderTexts == {t.text : t \in {u \in TaskSet : u.kind = "update_poll_message"}}

\* C1: in every reachable state every voter id is stored at most once in the
\* three voter lists of every open poll, taken together.
C1_OneOptionPerVoter ==
    \A k \in 1..Len(active_polls) : \A u \in Voters :
        Occurrences(active_polls[k].user_votes, u) <= 1

\* C1 witness: both voters chose yes, and one of them then moved to no while
\* the edit showing 2/0/0 was still in flight.
C1_Witness ==
    \E k \in 1..Len(active_polls) :
        /\ Len(active_polls[k].user_votes["yes"]) = 1
        /\ Len(active_polls[k].user_votes["no"]) = 1
        /\ <<2, 0, 0>> \in RenderTexts

\* C2: when the summary's send_message fails in close_poll, the poll is
\* still removed from active_polls.
C2_SummaryFailureStillCloses ==
    [][\A t \in TaskSet :
         (t.kind = "close_poll" /\ t.pc = "send_message"
            /\ out' = "summary_error" /\ tasks' = Finish(t))
         => t.poll_id \notin IdsOf(active_polls')]_vars

\* C3: no two open polls belong to the same chat and the same schedule.
C3_OnePollPerSchedule ==
    \A k1, k2 \in 1..Len(active_polls) :
        (active_polls[k1].chat_id = active_polls[k2].chat_id
            /\ active_polls[k1].settings = active_polls[k2].settings) => k1 = k2

\* C4: a create_poll whose send_message fails stores no poll, takes no poll
\* id, leaves the jobs as they are and ends: no other create_poll takes its
\* place.
C4_FailedStartStaysIdle ==
    [][out' = "create_error" =>
         /\ active_polls' = active_polls
         /\ next_id' = next_id
         /\ jobs' = jobs
         /\ \E t \in TaskSet : t.kind = "create_poll" /\ tasks' = Finish(t)]_vars

\* C4 witness: a start failed; nothing is open and nothing is in flight,
\* while the start job is still registered.
C4_Witness ==
    /\ out = "create_error"
    /\ active_polls = <<>>
    /\ tasks = EmptyBag
    /\ \E j \in jobs : j.func = "create_poll"

\* The entries of poll_settings as (chat, position) pairs.
Entries == {<<c, i>> \in Chats \X (1..(MaxSched + 1)) :
               c \in DOMAIN poll_settings /\ i <= Len(poll_settings[c])}

\* C5: once the bot runs, the job set is one start job and one end job per
\* stored entry, each with the entry's own day, hour and minute, and no
\* other job.
C5_JobsMatchSchedules ==
    phase = "run" =>
        /\ \A e \in Entries :
             LET s == poll_settings[e[1]][e[2]]
             IN  /\ \E j \in jobs :
                       /\ j.id = <<"poll_start", e[1], e[2] - 1>>
                       /\ <<j.day_of_week, j.hour, j.minute>> =
                             <<s.start_day, s.start_time.hour, s.start_time.minute>>
                 /\ \E j \in jobs :
                       /\ j.id = <<"poll_end", e[1], e[2] - 1>>
                       /\ <<j.day_of_week, j.hour, j.minute>> =
                             <<s.end_day, s.end_time.hour, s.end_time.minute>>
        /\ Cardinality(jobs) = 2 * Cardinality(Entries)

\* The options under which user_id is stored.
Holding(votes, user_id) == {o \in Options : user_id \in Range(votes[o])}

\* C6: a vote for y by a voter stored under another option x leaves the
\* voter under y and under no other option, in that one step; and no step
\* other than the voter's reset takes a stored voter out of every option.
C6_AtomicSwitch ==
    [][active_polls' # active_polls =>
        \A id \in IdsOf(active_polls) \cap IdsOf(active_polls') : \A u \in Voters :
           LET before == Holding(PollOf(active_polls, id).user_votes, u)
               after == Holding(PollOf(active_polls', id).user_votes, u)
           IN  /\ \A x \in before : \A y \in Options \ {x} : \A n \in Names :
                     Vote(id, u, n, y) => after = {y}
               /\ (before # {} /\ after = {}) => out' = "vote_reset"]_vars

\* C6 witness: the only voter of the poll is under no while the edits
\* showing 1/0/0 and 0/1/0 are both in flight: the vote moved from yes to no.
C6_Witness ==
    \E k \in 1..Len(active_polls) :
        /\ Len(active_polls[k].user_votes["yes"]) = 0
        /\ Len(active_polls[k].user_votes["no"]) = 1
        /\ Len(active_polls[k].user_votes["maybe"]) = 0
        /\ {<<1, 0, 0>>, <<0, 1, 0>>} \subseteq RenderTexts
        /\ out = "vote_cast"

\* snapshot(): the counts and the ordered name lists of a poll.
Snapshot(poll) ==
    [counts |-> format_poll_message(poll.user_votes),
     names |-> format_final_results(poll.user_names)]

\* C7: from every reachable tally, a vote cast twice in a row by the same
\* voter, under the same name, for the same option, leaves after the second
\* cast the snapshot the first cast left.
C7_RecastIdempotent ==
    \A k \in 1..Len(active_polls) : \A u \in Voters, n \in Names, a \in Options :
        LET first == cast_vote(active_polls[k], u, n, a)
        IN  Snapshot(cast_vote(first, u, n, a)) = Snapshot(first)

BagOfSeq(s) == [x \in Range(s) |-> Cardinality({i \in 1..Len(s) : s[i] = x})]

\* The names of an option without the entry at the position of user_id.
WithoutEntryOf(votes, names, user_id) ==
    LET i == IndexOf(votes, user_id)
    IN  IF i = 0 \/ i > Len(names) THEN names ELSE RemoveAt(names, i)

\* C8: a reset by a voter without a vote answers "no active vote" and changes
\* neither a tally nor the calls in flight; a reset by a voter with a vote
\* takes that voter's id and that voter's own name entry out, and nothing
\* else (the names compared as multisets).
C8_ResetFrame ==
    [][\A id \in IdsOf(active_polls) : \A u \in Voters, n \in Names :
         Reset(id, u, n) =>
            LET before == PollOf(active_polls, id)
            IN  IF ~HasVote(before, u)
                THEN active_polls' = active_polls /\ tasks' = tasks /\ out' = "no_active_vote"
                ELSE /\ id \in IdsOf(active_polls')
                     /\ \A o \in Options :
                          /\ PollOf(active_polls', id).user_votes[o] =
                                SelectSeq(before.user_votes[o], LAMBDA v : v # u)
                          /\ BagOfSeq(PollOf(active_polls', id).user_names[o]) =
                                BagOfSeq(WithoutEntryOf(before.user_votes[o],
                                                        before.user_names[o], u))]_vars

\* C9: the vote or reset of a poll id that is not open changes no poll,
\* opens none and starts no edit.
C9_UnknownPollNoOp ==
    [][out' = "poll_finished" =>
         active_polls' = active_polls /\ tasks' = tasks /\ next_id' = next_id]_vars

\* C9 witness: a vote for the closed first poll was answered while the
\* second poll is open and holds a vote.
C9_Witness ==
    /\ out = "poll_finished"
    /\ next_id = 3
    /\ Len(active_polls) = 1
    /\ active_polls[1].id = 2
    /\ active_polls[1].user_votes["yes"] # <<>>

\* C10: the step in which the edit of the poll message fails changes no
\* poll: what the vote or the reset stored stays.
C10_RenderFailureKeepsTally ==
    [][out' = "render_error" => active_polls' = active_polls]_vars

\* C10 witness: an edit failed and the poll holds the vote of one voter and
\* not the other's, who voted and reset.
C10_Witness ==
    /\ out = "render_error"
    /\ \E k \in 1..Len(active_polls) :
          /\ active_polls[k].user_votes["maybe"] = <<2>>
          /\ active_polls[k].user_votes["yes"] = <<>>
          /\ active_polls[k].user_votes["no"] = <<>>
    /\ <<1, 0, 1>> \in RenderTexts

\* The end job j finds no open poll of its chat whose settings equal the
\* entry at its index, the entry being there or not.
NoMatch(j) ==
    \A k \in 1..Len(active_polls) :
        ~ /\ active_polls[k].chat_id = j.chat_id
          /\ j.chat_id \in DOMAIN poll_settings
          /\ j.settings_index[1] + 1 <= Len(poll_settings[j.chat_id])
          /\ active_polls[k].settings = poll_settings[j.chat_id][j.settings_index[1] + 1]

\* C11: an end job that fires while no open poll matches its chat and entry
\* changes no poll, no tally, no message and no schedule, and starts no
\* summary; so too when its chat or its index is no longer in the list.
C11_UnmatchedEndJobNoEffect ==
    [][out' \in {"close_started", "no_match", "lookup_error"} =>
         \A j \in jobs : \A now \in Clock :
            (j.func = "close_poll_by_settings" /\ NoMatch(j) /\ FireEnd(j, now))
            => /\ UNCHANGED <<active_polls, tasks, messages, poll_settings, jobs, file>>
               /\ out' \in {"no_match", "lookup_error"}]_vars

\* C11 witness: an end job fired for an index that has left the list while
\* a poll of its chat is open.
C11_Witness ==
    /\ out = "lookup_error"
    /\ active_polls # <<>>
    /\ tasks = EmptyBag
    /\ "c1" \notin DOMAIN poll_settings

\* C12: with a schedule list that does not change, once the close that an
\* end job started for a poll has run to its end, no poll of that chat and
\* entry is open.
C12_EndJobDiscardsPoll ==
    [][\A t \in TaskSet :
         (t.kind = "close_poll" /\ t.job[1] = "poll_end" /\ tasks' = Finish(t))
         => \A k \in 1..Len(active_polls') :
               ~ /\ active_polls'[k].chat_id = t.chat_id
                 /\ active_polls'[k].entry_pos = t.entry_pos]_vars

\* C13: when a close takes its poll out of active_polls, the summary it
\* published lists, option by option, the names the poll holds at that
\* moment: every vote the poll accepted is in the summary.
C13_SummaryHasEveryVote ==
    [][\A t \in TaskSet :
         (t.kind = "close_poll" /\ out' = "poll_closed" /\ tasks' = Finish(t)
            /\ t.poll_id \in PollIds)
         => t.text = format_final_results(PollOf(active_polls, t.poll_id).user_names)]_vars

\* C14: while a handler stays suspended in a gateway call made for an open
\* poll (the edit after a vote or a reset, or a call of close_poll), no step
\* of another handler changes that poll's tally or removes the poll.
C14_NoInterleavedMutation ==
    [][\A t \in TaskSet :
         (/\ t.kind \in {"update_poll_message", "close_poll"}
          /\ t.poll_id \in PollIds
          /\ CopiesIn(t, tasks') >= CopiesIn(t, tasks))
         => /\ t.poll_id \in IdsOf(active_polls')
            /\ PollOf(active_polls', t.poll_id).user_votes =
                  PollOf(active_polls, t.poll_id).user_votes
            /\ PollOf(active_polls', t.poll_id).user_names =
                  PollOf(active_polls, t.poll_id).user_names]_vars

\* C15: when the last edit of an open poll's message failed, the next edit
\* of that message that succeeds shows the counts of the tally the poll has
\* at that moment.
C15_NextRenderSelfCorrects ==
    [][\A t \in TaskSet :
         (/\ t.kind = "update_poll_message"
          /\ out' = "vote_answered"
          /\ tasks' = Finish(t)
          /\ t.poll_id \in PollIds
          /\ messages[t.poll_id].edit_failed)
         => t.text = format_poll_message(PollOf(active_polls, t.poll_id).user_votes)]_vars

StartInstant(s) == <<s.start_day, s.start_time.hour, s.start_time.minute>>
EndInstant(s) == <<s.end_day, s.end_time.hour, s.end_time.minute>>

\* The jobs of kind func registered for entry e that are due at now.
DueJobs(e, func, now) ==
    {j \in jobs : j.func = func /\ j.chat_id = e[1] /\ j.id[3] = e[2] - 1 /\ CronMatches(j, now)}

\* C16: for every stored entry and every minute of the clock, exactly one
\* start job of the entry is due in the entry's start minute and none in
\* any other minute, and so for the end job and the end minute; a start job
\* that fires calls create_poll once, with the entry's chat and settings,
\* and when an end job fires the clock reads the entry's end minute.
C16_JobsFireAtEntryTime ==
    /\ [](phase = "run" =>
            \A e \in Entries : \A now \in Clock :
               LET s == poll_settings[e[1]][e[2]]
               IN  /\ Cardinality(DueJobs(e, "create_poll", now)) =
                         IF now = StartInstant(s) THEN 1 ELSE 0
                   /\ Cardinality(DueJobs(e, "close_poll_by_settings", now)) =
                         IF now = EndInstant(s) THEN 1 ELSE 0)
    /\ [][out' \in {"start_fired", "close_started", "no_match", "lookup_error"} =>
            \A j \in jobs : \A now \in Clock :
               LET s == poll_settings[j.id[2]][j.id[3] + 1]
               IN  /\ FireStart(j, now) =>
                         /\ now = StartInstant(s)
                         /\ \E t \in BagToSet(tasks') :
                               /\ t.kind = "create_poll"
                               /\ t.chat_id = j.id[2]
                               /\ t.settings = <<s>>
                               /\ tasks' = Spawn(t)
                   /\ FireEnd(j, now) => now = EndInstant(s)]_vars

\* C16 witness: with one schedule in each chat, the start job of the second
\* chat fired and create_poll runs for that chat and its schedule alone.
C16_Witness ==
    /\ out = "start_fired"
    /\ DOMAIN poll_settings = {"c1", "c2"}
    /\ poll_settings["c1"] = <<Training>>
    /\ poll_settings["c2"] = <<Match>>
    /\ \A t \in TaskSet : t.kind = "create_poll" /\ t.chat_id = "c2" /\ t.settings = <<Match>>
    /\ TaskCount = 1

\* The list of chat c, empty when the chat has no key.
ListOf(settings, c) == IF c \in DOMAIN settings THEN settings[c] ELSE <<>>

\* C17: /delete_poll k with 1 <= k <= n leaves the chat the n - 1 other
\* entries in their order: the entries before k where they were, those
\* after k one place down; the lists of the other chats are as they were.
C17_RemoveKeepsOrder ==
    [][out' \in {"poll_deleted", "unhandled_error"} =>
         \A c \in Chats : \A k \in 1..(MaxList + 1) : \A ok \in Bool :
            (k <= Len(ListOf(poll_settings, c)) /\ handle_delete_poll(c, k, ok))
            => LET old == poll_settings[c]
                   new == ListOf(poll_settings', c)
               IN  /\ Len(new) = Len(old) - 1
                   /\ \A i \in 1..(Len(old) - 1) : new[i] = IF i < k THEN old[i] ELSE old[i + 1]
                   /\ \A d \in Chats \ {c} :
                         ListOf(poll_settings', d) = ListOf(poll_settings, d)]_vars

\* C17 witness: one of the three schedules of the first chat was deleted and
\* the two others are the list, in their order, with their jobs; the second
\* chat keeps its schedule.
C17_Witness ==
    /\ out = "poll_deleted"
    /\ DOMAIN poll_settings = {"c1", "c2"}
    /\ poll_settings["c1"] = <<Training, Cup>>
    /\ Cardinality(jobs) = 6
    /\ \E j \in jobs : j.id = <<"poll_end", "c1", 1>> /\ j.hour = Cup.end_time.hour

\* C18: /delete_poll k with k outside 1..n, n the length of the chat's list,
\* is answered with a refusal (the wrong-number answer, or the no-polls
\* answer when the chat has no list) and leaves every chat's list, the
\* registered jobs and the schedule file as they were.
C18_OutOfRangeChangesNothing ==
    [][\A c \in Chats : \A k \in 0..(MaxList + 1) : \A ok \in Bool :
          (~(1 <= k /\ k <= Len(ListOf(poll_settings, c))) /\ handle_delete_poll(c, k, ok))
          => /\ out' = IF ListOf(poll_settings, c) = <<>> THEN "no_polls" ELSE "bad_number"
             /\ UNCHANGED <<poll_settings, jobs, file>>]_vars

\* C18 witness: a number outside the list was refused in a chat that has two
\* schedules and their four jobs.
C18_Witness ==
    /\ out = "bad_number"
    /\ DOMAIN poll_settings = {"c1"}
    /\ poll_settings["c1"] = <<Training, Cup>>
    /\ Cardinality(jobs) = 4

\* C19: startup over a schedule file that is missing or cannot be decoded
\* goes through: the bot runs with an empty poll_settings and no job, and
\* the file is left as it was found.
C19_BadFileStartsEmpty ==
    [][(phase = "boot" /\ file.status # "ok")
       => /\ phase' = "run"
          /\ out' = "started"
          /\ poll_settings' = EmptyDict
          /\ jobs' = {}
          /\ file' = file]_vars

\* C19 witness: the bot has started over an undecodable file and has neither
\* schedules nor jobs.
C19_Witness ==
    /\ phase = "run"
    /\ out = "started"
    /\ file.status = "corrupt"
    /\ poll_settings = EmptyDict
    /\ jobs = {}

\* A close_poll among the handlers tk is working on poll id.
ClosingIn(tk, id) == \E t \in BagToSet(tk) : t.kind = "close_poll" /\ t.poll_id = id

\* Poll p is open after the step and no close_poll works on it.
StaysOpen(p) ==
    /\ \E n \in 1..Len(active_polls') : active_polls'[n].id = p.id
    /\ ~ClosingIn(tasks', p.id)

\* C20 as stated: where no schedule is added, a poll whose entry was removed
\* from the list while it was open, and which no close_poll is working on,
\* is not closed by any step: it stays open and no end job starts closing it.
C20_RemovedEntryPollLingers ==
    [][\A n \in 1..Len(active_polls) :
          LET p == active_polls[n]
          IN  (p.entry_pos = 0 /\ ~ClosingIn(tasks, p.id)) => StaysOpen(p)]_vars

\* C20: a poll whose settings equal no entry of its chat's list, and which
\* no close_poll is working on, is not closed by any step: it stays open
\* and no end job starts closing it.
C20_UnmatchedPollLingers ==
    [][\A n \in 1..Len(active_polls) :
          LET p == active_polls[n]
          IN  (/\ \A i \in 1..Len(ListOf(poll_settings, p.chat_id)) :
                     poll_settings[p.chat_id][i] # p.settings
               /\ ~ClosingIn(tasks, p.id))
              => StaysOpen(p)]_vars

\* C20 witness: the entry that opened the poll was deleted, the end job of
\* the entry left in the list fired and found no poll to close, and the poll
\* is open with nothing working on it.
C20_Witness ==
    /\ out = "no_match"
    /\ ListOf(poll_settings, "c1") = <<Match>>
    /\ Len(active_polls) = 1
    /\ active_polls[1].settings = Training
    /\ active_polls[1].entry_pos = 0
    /\ tasks = EmptyBag

\* C21: no key of poll_settings maps to an empty list: load_data drops the
\* empty lists of the file, the wizard appends to the list it creates,
\* /delete_poll deletes the key of the list it emptied and /delete_all_polls
\* deletes the key.
C21_NoEmptyList == \A c \in DOMAIN poll_settings : poll_settings[c] # <<>>

\* C21 witness: the only schedule of the store was deleted by its number,
\* and the store and the rewritten file have no chat.
C21_Witness ==
    /\ out = "poll_deleted"
    /\ poll_settings = EmptyDict
    /\ file = save_data(EmptyDict)
    /\ jobs = {}

\* C22: every entry that a step adds to active_polls has no voter and no
\* name under any of its three options.
C22_NewPollEmptyTally ==
    [][\A n \in 1..Len(active_polls') :
          active_polls'[n].id \notin PollIds
          => /\ DOMAIN active_polls'[n].user_votes = Options
             /\ \A o \in Options : /\ active_polls'[n].user_votes[o] = <<>>
                                   /\ active_polls'[n].user_names[o] = <<>>]_vars

\* C22 witness: a second poll of the schedule has just been stored, empty,
\* while the first poll of the same schedule holds a vote.
C22_Witness ==
    /\ out = "poll_created"
    /\ Len(active_polls) = 2
    /\ active_polls[1].settings = active_polls[2].settings
    /\ active_polls[1].user_votes["yes"] = <<1>>
    /\ active_polls[2].user_votes = EmptyTally
    /\ active_polls[2].user_names = EmptyTally

\* C23: in every open poll every option has as many stored display names
\* as stored voter ids, so the counts of the summary (taken from the names)
\* are the counts of the live message (taken from the ids).
C23_NamesMatchIds ==
    \A n \in 1..Len(active_polls) : \A o \in Options :
        Len(active_polls[n].user_names[o]) = Len(active_polls[n].user_votes[o])

\* C24: every close_poll started by an end job works on the poll opened
\* from the job's own entry, and no two close_poll work on the same poll, so
\* that no poll gets two summaries.
C24_EndJobClosesOwnPoll ==
    \A t \in TaskSet :
        t.kind = "close_poll"
        => /\ t.entry_pos = t.job[3] + 1
           /\ tasks[t] = 1
           /\ \A u \in TaskSet \ {t} : u.kind = "close_poll" => u.poll_id # t.poll_id

\* C25: the message of a poll that close_poll has removed from active_polls
\* after taking its keyboard off keeps no keyboard: no later step puts the
\* controls back.
C25_ClosedMessageStaysStripped ==
    [][\A id \in 1..Len(messages) :
          (id \notin PollIds /\ ~messages[id].reply_markup) => ~messages'[id].reply_markup]_vars

\* What the scheduler holds of the jobs js: id, function and trigger.
Registered(js) == {<<j.id, j.func, j.day_of_week, j.hour, j.minute>> : j \in js}

\* C26: after a handler whose write of the schedule file failed, the list
\* in memory and the registered jobs agree: the jobs are those of the
\* changed list, or the list is unchanged and so are the jobs.
C26_FailedWriteKeepsAgreement ==
    [][out' = "unhandled_error"
       => \/ Registered(jobs') = Registered(setup_scheduler(poll_settings'))
          \/ /\ poll_settings' = poll_settings
             /\ Registered(jobs') = Registered(jobs)]_vars

====
